---- MODULE Spec2Model ----
(***************************************************************************)
(* A model of the deferred concatenation planner of movie-mix-util:        *)
(* VideoConcatPlan (src/deferred_concat.py), the legacy pipeline it hands  *)
(* its sequence to (src/src/movie_mix_util/advanced_video_concatenator.py),*)
(* VideoSequenceBuilder (video_processing_lib.py) and DeferredVideoSequence*)
(* (src/src/movie_mix_util/deferred_concat.py).                            *)
(*                                                                         *)
(* A behaviour exercises one object: Spec a VideoConcatPlan, SpecBuilder a *)
(* VideoSequenceBuilder, SpecDeferred a DeferredVideoSequence, SpecArgs    *)
(* one call of build_sequence_from_args, SpecLadder one call of            *)
(* try_videotoolbox_encode_with_bitrate_fallback, SpecAll any one of the   *)
(* objects.                                                                *)
(*                                                                         *)
(* Durations are floats in the program; the model counts them in whole     *)
(* units, so sums and differences are exact and float rounding is not      *)
(* modelled.                                                               *)
(***************************************************************************)
EXTENDS Integers, Sequences, FiniteSets, TLC

\* ---------------------------------------------------------------- bounds
MaxItems == 3      \* longest item sequence a plan is grown to
MaxFails == 1      \* resolver failures in one behaviour

\* ------------------------------------------------------------ environment
ExistingPaths == {"A.mp4", "B.mp4"}            \* files Path(p).exists() finds
Paths == ExistingPaths \cup {"missing.mp4"}    \* arguments given to append()
OutputPaths == {"out.mp4"}                     \* arguments given to output()
DurationValues == {2, 4}                       \* what the prober can return
ProbedDuration == [p \in ExistingPaths |-> IF p = "A.mp4" THEN 2 ELSE 4]
CrossfadeInputs == {0, 3}                      \* arguments given to crossfade()

\* TransitionMode (enum values)
NONE == "none"
CROSSFADE_NO_INCREASE == "no_increase"
CROSSFADE_INCREASE == "increase"
TransitionMode == {NONE, CROSSFADE_NO_INCREASE, CROSSFADE_INCREASE}

\* PlanState (enum values)
BUILDING == "building"
FROZEN == "frozen"
EXECUTED == "executed"

\* Optional[str] = None for _output_path
NoOutput == "None"

\* _VideoClip(path, duration=None): duration is None until resolved
VideoClip(p) ==
    [type |-> "clip", path |-> p, resolved |-> FALSE, mode |-> "", duration |-> 0]

\* _TransitionSpec(mode, duration)
TransitionSpec(m, d) ==
    [type |-> "transition", path |-> "", resolved |-> FALSE, mode |-> m, duration |-> d]

isVideoClip(it) == it.type = "clip"
isTransitionSpec(it) == it.type = "transition"

VARIABLES
    items,                    \* self._items
    output_path,              \* self._output_path
    state,                    \* self._state
    legacy_static_crossfade,  \* self._legacy_static_crossfade
    probe,                    \* the duration each existing file has (the prober)
    op,                       \* the public method called last
    err,                      \* how that call ended: "ok" or the exception raised
    ret,                      \* what that call returned (NoResult when it raised)
    resolveLog,               \* item indices _freeze probed in the last call, in order
    resolveCalls,             \* item index -> number of _probe_duration calls by _freeze
    resolveOk,                \* item index -> number of those calls that returned
    fails,                    \* resolver failures so far
    subject,                  \* the object this behaviour exercises
    builder_sequence,         \* VideoSequenceBuilder: self._sequence
    built,                    \* VideoSequenceBuilder: the list build() returned last
    added,                    \* VideoSequenceBuilder: the add_* calls since clear()
    operations,               \* DeferredVideoSequence: self._operations
    arg_videos,               \* build_sequence_from_args: videos
    arg_transitions,          \* build_sequence_from_args: transitions
    target_bitrate,           \* try_videotoolbox_encode_...: target_bitrate
    attempt_outcomes,         \* ... and whether its i-th ffmpeg run would succeed
    video_codec,              \* DEFAULT_VIDEO_CODEC of video_processing_lib
    encodes                   \* the ffmpeg encode runs of the execute() that ended

vars == <<items, output_path, state, legacy_static_crossfade, probe, op, err, ret,
          resolveLog, resolveCalls, resolveOk, fails, subject, builder_sequence,
          built, added, operations, arg_videos, arg_transitions, target_bitrate,
          attempt_outcomes, video_codec, encodes>>

\* what belongs to the VideoSequenceBuilder, to the DeferredVideoSequence and to
\* the calls of the two functions exercised on their own
builderVars == <<builder_sequence, built, added>>
deferredVars == <<operations, video_codec, encodes>>
argVars == <<arg_videos, arg_transitions, target_bitrate, attempt_outcomes>>

planVars == <<items, output_path, state, legacy_static_crossfade>>
resolverVars == <<resolveLog, resolveCalls, resolveOk, fails>>

NoResult == [kind |-> "none"]

\* ----------------------------------------------------------------- helpers
\* Path(video_path).exists()
path_exists(p) == p \in ExistingPaths

\* truthiness of self._output_path: None and "" are falsy
truthy(out) == out # NoOutput /\ out # ""

\* _assert_building: TRUE when it returns, FALSE when it raises RuntimeError
assert_building_any(st) == TRUE
assert_building(st) == st = BUILDING

\* _probe_duration(path): the value the prober returns when it returns
probe_duration(p) == probe[p]

\* ------------------------------------------------------------------ _freeze
\* the loop of _freeze walking the items from the last to the first
RECURSIVE freeze_loop_reversed(_, _, _, _)
freeze_loop_reversed(its, i, failAt, log) ==
    LET j == Len(its) + 1 - i IN
    IF i > Len(its)
    THEN [items |-> its, log |-> log, raised |-> FALSE]
    ELSE IF isVideoClip(its[j]) /\ ~its[j].resolved
         THEN IF j = failAt
              THEN [items |-> its, log |-> Append(log, j), raised |-> TRUE]
              ELSE freeze_loop_reversed([its EXCEPT ![j].resolved = TRUE,
                                           ![j].duration = probe_duration(its[j].path)],
                               i + 1, failAt, Append(log, j))
         ELSE freeze_loop_reversed(its, i + 1, failAt, log)

\* the loop of _freeze probing every clip, resolved or not
RECURSIVE freeze_loop_reprobe(_, _, _, _)
freeze_loop_reprobe(its, i, failAt, log) ==
    IF i > Len(its)
    THEN [items |-> its, log |-> log, raised |-> FALSE]
    ELSE IF isVideoClip(its[i])
         THEN IF i = failAt
              THEN [items |-> its, log |-> Append(log, i), raised |-> TRUE]
              ELSE freeze_loop_reprobe([its EXCEPT ![i].resolved = TRUE,
                                           ![i].duration = probe_duration(its[i].path)],
                               i + 1, failAt, Append(log, i))
         ELSE freeze_loop_reprobe(its, i + 1, failAt, log)

\* the "duration 補完" loop of _freeze from item i on. failAt is the item index at
\* which _probe_duration raises (0: it raises nowhere). The exception leaves the
\* loop at once, so the items probed before it keep their durations.
RECURSIVE freeze_loop(_, _, _, _)
freeze_loop(its, i, failAt, log) ==
    IF i > Len(its)
    THEN [items |-> its, log |-> log, raised |-> FALSE]
    ELSE IF isVideoClip(its[i]) /\ ~its[i].resolved
         THEN IF i = failAt
              THEN [items |-> its, log |-> Append(log, i), raised |-> TRUE]
              ELSE freeze_loop([its EXCEPT ![i].resolved = TRUE,
                                           ![i].duration = probe_duration(its[i].path)],
                               i + 1, failAt, Append(log, i))
         ELSE freeze_loop(its, i + 1, failAt, log)

\* the three validations of _freeze: "ok" or the exception raised
freeze_validate_no_output_check(out, its) ==
    IF its = <<>> THEN "ValueError"
    ELSE IF ~isVideoClip(its[1]) THEN "ValueError"
    ELSE "ok"
freeze_validate_no_first_check(out, its) ==
    IF ~truthy(out) THEN "ValueError"
    ELSE IF its = <<>> THEN "ValueError"
    ELSE "ok"
freeze_validate(out, its) ==
    IF ~truthy(out) THEN "ValueError"
    ELSE IF its = <<>> THEN "ValueError"
    ELSE IF ~isVideoClip(its[1]) THEN "ValueError"
    ELSE "ok"

\* _freeze(): the plan after the call, the exception it raised ("ok": none) and
\* the resolver calls it made. "ProbeError" is whatever _probe_duration raises:
\* RuntimeError in the stub, SystemExit from get_video_duration.
freeze_marks_frozen_on_error(st, out, its, failAt) ==
    IF st = BUILDING
    THEN IF freeze_validate(out, its) # "ok"
         THEN [state |-> st, items |-> its, err |-> freeze_validate(out, its), log |-> <<>>]
         ELSE LET r == freeze_loop(its, 1, failAt, <<>>) IN
              IF r.raised
              THEN [state |-> FROZEN, items |-> r.items, err |-> "ProbeError", log |-> r.log]
              ELSE [state |-> FROZEN, items |-> r.items, err |-> "ok", log |-> r.log]
    ELSE [state |-> st, items |-> its, err |-> "ok", log |-> <<>>]
freeze_keeps_building(st, out, its, failAt) ==
    IF st = BUILDING
    THEN IF freeze_validate(out, its) # "ok"
         THEN [state |-> st, items |-> its, err |-> freeze_validate(out, its), log |-> <<>>]
         ELSE LET r == freeze_loop(its, 1, failAt, <<>>) IN
              [state |-> st, items |-> r.items,
               err |-> IF r.raised THEN "ProbeError" ELSE "ok", log |-> r.log]
    ELSE [state |-> st, items |-> its, err |-> "ok", log |-> <<>>]
freeze(st, out, its, failAt) ==
    IF st = BUILDING
    THEN IF freeze_validate(out, its) # "ok"
         THEN [state |-> st, items |-> its, err |-> freeze_validate(out, its), log |-> <<>>]
         ELSE LET r == freeze_loop(its, 1, failAt, <<>>) IN
              IF r.raised
              THEN [state |-> st, items |-> r.items, err |-> "ProbeError", log |-> r.log]
              ELSE [state |-> FROZEN, items |-> r.items, err |-> "ok", log |-> r.log]
    ELSE [state |-> st, items |-> its, err |-> "ok", log |-> <<>>]

\* --------------------------------------------------------- _compute_timeline
\* "it.duration or 0.0"
duration_or_zero(it) == IF it.resolved THEN it.duration ELSE 0

RECURSIVE compute_timeline_adds(_, _, _)
compute_timeline_adds(its, i, total) ==
    IF i > Len(its) THEN total
    ELSE IF isVideoClip(its[i])
         THEN compute_timeline_adds(its, i + 1, total + duration_or_zero(its[i]))
         ELSE IF its[i].mode \in {CROSSFADE_NO_INCREASE, CROSSFADE_INCREASE}
              THEN compute_timeline_adds(its, i + 1, total + its[i].duration)
              ELSE compute_timeline_adds(its, i + 1, total)

\* the left-to-right fold of _compute_timeline from item i on; its total_duration
RECURSIVE compute_timeline(_, _, _)
compute_timeline(its, i, total) ==
    IF i > Len(its) THEN total
    ELSE IF isVideoClip(its[i])
         THEN compute_timeline(its, i + 1, total + duration_or_zero(its[i]))
         ELSE IF its[i].mode = CROSSFADE_NO_INCREASE
              THEN compute_timeline(its, i + 1, total - its[i].duration)
              ELSE IF its[i].mode = CROSSFADE_INCREASE
                   THEN compute_timeline(its, i + 1, total + its[i].duration)
                   ELSE compute_timeline(its, i + 1, total)

\* _describe_item
describe_item(it) ==
    IF isVideoClip(it)
    THEN [type |-> "clip", path |-> it.path, mode |-> "", duration |-> it.duration]
    ELSE [type |-> "transition", path |-> "", mode |-> it.mode, duration |-> it.duration]

\* ---------------------------------------------- _build_filter_graph_preview
\* One line of the preview text: what it says (kind), the text it names (arg),
\* the label number it names (n) and the duration it prints (dur).
Line(kind, arg, n, dur) == [kind |-> kind, arg |-> arg, n |-> n, dur |-> dur]

\* the loop of _build_filter_graph_preview from item i on, with input_index and
\* xf_count as they stand and the lines written so far
RECURSIVE preview_loop_trims(_, _, _, _, _, _)
preview_loop_trims(its, i, input_index, xf_count, legacy, lines) ==
    IF i > Len(its) THEN lines
    ELSE IF isVideoClip(its[i])
         THEN preview_loop_trims(its, i + 1, input_index + 1, xf_count, legacy,
                  Append(lines, Line("input", its[i].path, input_index,
                      IF i < Len(its) /\ its[i + 1].mode = CROSSFADE_NO_INCREASE
                      THEN its[i].duration - its[i + 1].duration
                      ELSE its[i].duration)))
         ELSE IF its[i].mode = NONE
              THEN preview_loop_trims(its, i + 1, input_index, xf_count, legacy,
                       Append(lines, Line("boundary", "", 0, 0)))
              ELSE IF its[i].mode = CROSSFADE_NO_INCREASE
                   THEN preview_loop_trims(its, i + 1, input_index, xf_count + 1, legacy,
                            Append(lines, Line("xfade", "no_increase",
                                               xf_count + 1, its[i].duration)))
                   ELSE preview_loop_trims(its, i + 1, input_index, xf_count + 1, legacy,
                            Append(lines, Line("xfade+duration",
                                IF legacy THEN "increase-static" ELSE "increase-dynamic",
                                xf_count + 1, its[i].duration)))

RECURSIVE preview_loop(_, _, _, _, _, _)
preview_loop(its, i, input_index, xf_count, legacy, lines) ==
    IF i > Len(its) THEN lines
    ELSE IF isVideoClip(its[i])
         THEN preview_loop(its, i + 1, input_index + 1, xf_count, legacy,
                  Append(lines, Line("input", its[i].path, input_index, its[i].duration)))
         ELSE IF its[i].mode = NONE
              THEN preview_loop(its, i + 1, input_index, xf_count, legacy,
                       Append(lines, Line("boundary", "", 0, 0)))
              ELSE IF its[i].mode = CROSSFADE_NO_INCREASE
                   THEN preview_loop(its, i + 1, input_index, xf_count + 1, legacy,
                            Append(lines, Line("xfade", "no_increase",
                                               xf_count + 1, its[i].duration)))
                   ELSE preview_loop(its, i + 1, input_index, xf_count + 1, legacy,
                            Append(lines, Line("xfade+duration",
                                IF legacy THEN "increase-static" ELSE "increase-dynamic",
                                xf_count + 1, its[i].duration)))

build_filter_graph_preview(its, total, out, legacy) ==
    preview_loop(its, 1, 0, 0, legacy, <<Line("header", "", 0, 0)>>)
        \o <<Line("final output", out, 0, 0), Line("total", "", 0, total)>>

\* ------------------------------------------- advanced_video_concatenator.py
\* execute() rebuilds the sequence as LegacyVideoSegment(path) and
\* LegacyTransition(mode, duration): the clips' resolved durations are dropped
legacy_sequence(its) ==
    [i \in 1..Len(its) |->
        IF isVideoClip(its[i]) THEN VideoClip(its[i].path)
        ELSE TransitionSpec(its[i].mode, its[i].duration)]

\* get_video_duration(path) when the probe succeeds
get_video_duration(p) == probe_duration(p)

\* calculate_sequence_duration: the fold from item i on
RECURSIVE calculate_sequence_duration(_, _, _)
calculate_sequence_duration(sequence, i, total_duration) ==
    IF i > Len(sequence) THEN total_duration
    ELSE IF isVideoClip(sequence[i])
         THEN calculate_sequence_duration(sequence, i + 1,
                  total_duration + get_video_duration(sequence[i].path))
         ELSE IF sequence[i].mode = CROSSFADE_NO_INCREASE
              THEN calculate_sequence_duration(sequence, i + 1,
                       total_duration - sequence[i].duration)
              ELSE IF sequence[i].mode = CROSSFADE_INCREASE
                   THEN calculate_sequence_duration(sequence, i + 1,
                            total_duration + sequence[i].duration)
                   ELSE calculate_sequence_duration(sequence, i + 1, total_duration)

\* a video input of segments_list: ffmpeg.input(path, t=...) or ffmpeg.input(path)
VideoInput(p, trimmed, t) ==
    [kind |-> "video", path |-> p, trimmed |-> trimmed, t |-> t]

\* create_crossfade_segment(video1, video2, video1_duration, fade_duration):
\* a segment of fade_duration seconds; video1 is "" when no clip came before
CrossfadeSegment(fade_duration) ==
    [kind |-> "crossfade", path |-> "", trimmed |-> FALSE, t |-> fade_duration]

\* the segment loop, trimming a clip before an extend crossfade too
RECURSIVE concat_loop_trims_before_any_crossfade(_, _, _)
concat_loop_trims_before_any_crossfade(sequence, i, segments_list) ==
    IF i > Len(sequence) THEN [segments |-> segments_list, exited |-> FALSE]
    ELSE IF isVideoClip(sequence[i])
         THEN LET current_video_duration == get_video_duration(sequence[i].path)
                  shortens == /\ i + 1 <= Len(sequence)
                              /\ isTransitionSpec(sequence[i + 1])
                              /\ sequence[i + 1].mode # NONE
              IN concat_loop_trims_before_any_crossfade(sequence, i + 1, Append(segments_list,
                     IF shortens
                     THEN VideoInput(sequence[i].path, TRUE,
                              current_video_duration - sequence[i + 1].duration)
                     ELSE VideoInput(sequence[i].path, FALSE, current_video_duration)))
         ELSE IF sequence[i].mode \in {CROSSFADE_NO_INCREASE, CROSSFADE_INCREASE}
              THEN IF i + 1 <= Len(sequence) /\ isVideoClip(sequence[i + 1])
                   THEN concat_loop_trims_before_any_crossfade(sequence, i + 1,
                            Append(segments_list, CrossfadeSegment(sequence[i].duration)))
                   ELSE [segments |-> segments_list, exited |-> TRUE]
              ELSE concat_loop_trims_before_any_crossfade(sequence, i + 1, segments_list)

\* the segment loop, emitting a node of no length for a NONE transition
RECURSIVE concat_loop_cut_node(_, _, _)
concat_loop_cut_node(sequence, i, segments_list) ==
    IF i > Len(sequence) THEN [segments |-> segments_list, exited |-> FALSE]
    ELSE IF isVideoClip(sequence[i])
         THEN LET current_video_duration == get_video_duration(sequence[i].path)
                  shortens == /\ i + 1 <= Len(sequence)
                              /\ isTransitionSpec(sequence[i + 1])
                              /\ sequence[i + 1].mode = CROSSFADE_NO_INCREASE
              IN concat_loop_cut_node(sequence, i + 1, Append(segments_list,
                     IF shortens
                     THEN VideoInput(sequence[i].path, TRUE,
                              current_video_duration - sequence[i + 1].duration)
                     ELSE VideoInput(sequence[i].path, FALSE, current_video_duration)))
         ELSE IF sequence[i].mode \in {CROSSFADE_NO_INCREASE, CROSSFADE_INCREASE}
              THEN IF i + 1 <= Len(sequence) /\ isVideoClip(sequence[i + 1])
                   THEN concat_loop_cut_node(sequence, i + 1,
                            Append(segments_list, CrossfadeSegment(sequence[i].duration)))
                   ELSE [segments |-> segments_list, exited |-> TRUE]
              ELSE concat_loop_cut_node(sequence, i + 1,
                       Append(segments_list, CrossfadeSegment(0)))

\* the segment loop of concatenate_videos_advanced from item i on:
\* the segments_list built, and whether sys.exit(1) ended it (a crossfade that
\* no video segment follows)
RECURSIVE concat_loop(_, _, _)
concat_loop(sequence, i, segments_list) ==
    IF i > Len(sequence) THEN [segments |-> segments_list, exited |-> FALSE]
    ELSE IF isVideoClip(sequence[i])
         THEN LET current_video_duration == get_video_duration(sequence[i].path)
                  shortens == /\ i + 1 <= Len(sequence)
                              /\ isTransitionSpec(sequence[i + 1])
                              /\ sequence[i + 1].mode = CROSSFADE_NO_INCREASE
              IN concat_loop(sequence, i + 1, Append(segments_list,
                     IF shortens
                     THEN VideoInput(sequence[i].path, TRUE,
                              current_video_duration - sequence[i + 1].duration)
                     ELSE VideoInput(sequence[i].path, FALSE, current_video_duration)))
         ELSE IF sequence[i].mode \in {CROSSFADE_NO_INCREASE, CROSSFADE_INCREASE}
              THEN IF i + 1 <= Len(sequence) /\ isVideoClip(sequence[i + 1])
                   THEN concat_loop(sequence, i + 1,
                            Append(segments_list, CrossfadeSegment(sequence[i].duration)))
                   ELSE [segments |-> segments_list, exited |-> TRUE]
              ELSE concat_loop(sequence, i + 1, segments_list)

\* the get_video_duration calls of calculate_sequence_duration: one per video
\* segment, in sequence order (as item indices)
probed_by_fold(sequence) ==
    SelectSeq([i \in 1..Len(sequence) |-> i], LAMBDA i : isVideoClip(sequence[i]))

\* the get_video_duration calls of the segment loop: one per video segment it
\* came to, each of which left one video input in segments_list
probed_by_loop(sequence, segments_list) ==
    SubSeq(probed_by_fold(sequence), 1,
           Len(SelectSeq(segments_list, LAMBDA sg : sg.kind = "video")))

\* a pipeline that takes the durations it is given and probes nothing
legacy_probes_none(sequence, segments_list) == <<>>

\* every get_video_duration call of concatenate_videos_advanced, in call order
legacy_probes(sequence, segments_list) ==
    probed_by_fold(sequence) \o probed_by_loop(sequence, segments_list)

\* concatenate_videos_advanced(sequence, output). runOk: ffmpeg.run and every
\* get_video_duration probe of this call succeed; any failure is sys.exit(1).
concatenate_videos_advanced(sequence, runOk) ==
    IF Len(sequence) < 1 \/ ~isVideoClip(sequence[1])
    THEN [err |-> "SystemExit", total_duration |-> 0, segments |-> <<>>,
          probes |-> <<>>]
    ELSE LET r == concat_loop(sequence, 1, <<>>) IN
         [err |-> IF r.exited \/ ~runOk THEN "SystemExit" ELSE "ok",
          total_duration |-> calculate_sequence_duration(sequence, 1, 0),
          segments |-> r.segments,
          probes |-> legacy_probes(sequence, r.segments)]

\* ------------------------------------------------------------ return values
DryRunResult(its, out, legacy) ==
    [kind |-> "dry_run",
     output |-> out,
     items |-> [i \in 1..Len(its) |-> describe_item(its[i])],
     timeline_total |-> compute_timeline(its, 1, 0),
     graph_preview |-> build_filter_graph_preview(its, compute_timeline(its, 1, 0),
                                                  out, legacy),
     legacy_static_crossfade |-> legacy,
     final_duration |-> 0,
     legacy_total |-> 0,
     segments |-> <<>>,
     legacy_probes |-> <<>>]

ExecuteResult(its, out, legacy, final_duration, concat) ==
    [kind |-> "execute",
     output |-> out,
     items |-> [i \in 1..Len(its) |-> describe_item(its[i])],
     timeline_total |-> compute_timeline(its, 1, 0),
     graph_preview |-> <<>>,
     legacy_static_crossfade |-> legacy,
     final_duration |-> final_duration,
     legacy_total |-> concat.total_duration,
     segments |-> concat.segments,
     legacy_probes |-> concat.probes]

\* ------------------------------------------------------ resolver bookkeeping
Times(i, log) == Cardinality({k \in DOMAIN log : log[k] = i})

\* the counters after a _freeze call that returned f
Resolved(f) ==
    /\ resolveLog' = f.log
    /\ resolveCalls' = [i \in DOMAIN resolveCalls |-> resolveCalls[i] + Times(i, f.log)]
    /\ resolveOk' = [i \in DOMAIN resolveOk |->
           IF i <= Len(f.items) /\ f.items[i].resolved
           THEN resolveOk[i] + Times(i, f.log)
           ELSE resolveOk[i]]
    /\ fails' = IF f.err = "ProbeError" THEN fails + 1 ELSE fails

\* the prober can raise at item k of this plan: _freeze would probe it
CanFail(k) ==
    /\ state = BUILDING
    /\ freeze_validate(output_path, items) = "ok"
    /\ k \in 1..Len(items)
    /\ isVideoClip(items[k])
    /\ ~items[k].resolved
    /\ fails < MaxFails

\* ------------------------------------------------------------------- Init
\* the objects a behaviour does not exercise: their variables stay at these values
NoList == [returned |-> FALSE, alias |-> FALSE, value |-> <<>>]
NoBuilder == builder_sequence = <<>> /\ built = NoList /\ added = <<>>
NoDeferred == operations = <<>> /\ video_codec = "libx264" /\ encodes = <<>>
NoLadder == target_bitrate = 0 /\ attempt_outcomes = <<>>
NoArgs == arg_videos = <<>> /\ arg_transitions = <<>> /\ NoLadder

\* VideoConcatPlan.__init__: the four assignments of lines 70-73 (line 70 is
\* indented one level short in the source; it is read as part of __init__ like
\* the three after it)
NewPlan ==
    /\ items = <<>>
    /\ output_path = NoOutput
    /\ state = BUILDING
    /\ legacy_static_crossfade = TRUE
    /\ probe = ProbedDuration
    /\ op = "__init__"
    /\ err = "ok"
    /\ ret = NoResult
    /\ resolveLog = <<>>
    /\ resolveCalls = [i \in 1..MaxItems |-> 0]
    /\ resolveOk = [i \in 1..MaxItems |-> 0]
    /\ fails = 0

Init ==
    /\ subject = "VideoConcatPlan"
    /\ NewPlan
    /\ NoBuilder
    /\ NoDeferred
    /\ NoArgs

\* ------------------------------------------------------------ the fluent API
\* a call on the VideoConcatPlan: the other objects are not touched
PlanCall ==
    /\ subject = "VideoConcatPlan"
    /\ UNCHANGED <<subject, builderVars, deferredVars, argVars>>

\* a call that raised: nothing of the plan changes, nothing is returned
Raises(name, e) ==
    /\ op' = name
    /\ err' = e
    /\ ret' = NoResult
    /\ UNCHANGED <<planVars, probe, resolverVars>>
    /\ PlanCall

\* append(video_path)
AppendClip(video_path) ==
    IF ~assert_building(state)
    THEN Raises("append", "RuntimeError: plan is frozen")
    ELSE IF ~path_exists(video_path)
         THEN Raises("append", "FileNotFoundError")
         ELSE /\ Len(items) < MaxItems
              /\ items' = Append(items, VideoClip(video_path))
              /\ op' = "append" /\ err' = "ok" /\ ret' = NoResult
              /\ UNCHANGED <<output_path, state, legacy_static_crossfade, probe, resolverVars>>
              /\ PlanCall

\* crossfade(duration, mode)
Crossfade(duration, mode) ==
    IF ~assert_building(state)
    THEN Raises("crossfade", "RuntimeError: plan is frozen")
    ELSE IF duration <= 0
         THEN Raises("crossfade", "ValueError")
         ELSE /\ Len(items) < MaxItems
              /\ items' = Append(items, TransitionSpec(mode, duration))
              /\ op' = "crossfade" /\ err' = "ok" /\ ret' = NoResult
              /\ UNCHANGED <<output_path, state, legacy_static_crossfade, probe, resolverVars>>
              /\ PlanCall

\* simple()
Simple ==
    IF ~assert_building(state)
    THEN Raises("simple", "RuntimeError: plan is frozen")
    ELSE /\ Len(items) < MaxItems
         /\ items' = Append(items, TransitionSpec(NONE, 0))
         /\ op' = "simple" /\ err' = "ok" /\ ret' = NoResult
         /\ UNCHANGED <<output_path, state, legacy_static_crossfade, probe, resolverVars>>
         /\ PlanCall

\* output(path)
Output(path) ==
    IF ~assert_building(state)
    THEN Raises("output", "RuntimeError: plan is frozen")
    ELSE /\ output_path' = path
         /\ op' = "output" /\ err' = "ok" /\ ret' = NoResult
         /\ UNCHANGED <<items, state, legacy_static_crossfade, probe, resolverVars>>
         /\ PlanCall

\* legacy_static(enabled): no _assert_building
LegacyStatic(enabled) ==
    /\ legacy_static_crossfade' = enabled
    /\ op' = "legacy_static" /\ err' = "ok" /\ ret' = NoResult
    /\ UNCHANGED <<items, output_path, state, probe, resolverVars>>
    /\ PlanCall

\* dry_run(); failAt: the item at which the prober raises (0: nowhere)
DryRun(failAt) ==
    /\ failAt = 0 \/ CanFail(failAt)
    /\ \E f \in {freeze(state, output_path, items, failAt)} :
          /\ op' = "dry_run"
          /\ state' = f.state
          /\ items' = f.items
          /\ Resolved(f)
          /\ err' = f.err
          /\ ret' = IF f.err = "ok"
                    THEN DryRunResult(f.items, output_path, legacy_static_crossfade)
                    ELSE NoResult
          /\ UNCHANGED <<output_path, legacy_static_crossfade, probe>>
          /\ PlanCall

\* execute(); importOk: the local import of advanced_video_concatenator works;
\* runOk: the legacy pipeline's probes and ffmpeg run succeed, and so does the
\* probe of the output file, which then reports final_duration. What is never
\* reached (the import after a failed _freeze, the run after a failed import,
\* the probe of the output after a failed run) is not chosen.
Execute(failAt, importOk, runOk, final_duration) ==
    /\ failAt = 0 \/ CanFail(failAt)
    /\ \E f \in {freeze(state, output_path, items, failAt)} :
          /\ f.err # "ok" => importOk
          /\ (f.err # "ok" \/ ~importOk) => runOk
          /\ \E concat \in {concatenate_videos_advanced(legacy_sequence(f.items), runOk)} :
                /\ (f.err # "ok" \/ ~importOk \/ concat.err # "ok") =>
                       final_duration = CHOOSE d \in DurationValues : TRUE
                /\ op' = "execute"
                /\ state' = f.state
                /\ items' = f.items
                /\ Resolved(f)
                /\ err' = IF f.err # "ok" THEN f.err
                          ELSE IF ~importOk THEN "RuntimeError: import failed"
                          ELSE concat.err
                /\ ret' = IF err' = "ok"
                          THEN ExecuteResult(f.items, output_path,
                                             legacy_static_crossfade,
                                             final_duration, concat)
                          ELSE NoResult
                /\ UNCHANGED <<output_path, legacy_static_crossfade, probe>>
                /\ PlanCall

Next ==
    \/ \E p \in Paths : AppendClip(p)
    \/ \E d \in CrossfadeInputs, m \in TransitionMode : Crossfade(d, m)
    \/ Simple
    \/ \E p \in OutputPaths : Output(p)
    \/ \E b \in BOOLEAN : LegacyStatic(b)
    \/ \E k \in 0..MaxItems : DryRun(k)
    \/ \E k \in 0..MaxItems, importOk \in BOOLEAN, runOk \in BOOLEAN,
          fd \in DurationValues : Execute(k, importOk, runOk, fd)

Spec == Init /\ [][Next]_vars

\* ---------------------------------------------------- DeferredVideoSequence
MaxVideos == 3     \* most videos a DeferredVideoSequence is grown to

FADE == "fade"                       \* CrossfadeEffect.FADE, the default effect
AppendDurations == CrossfadeInputs   \* duration arguments given to append()

\* the tuples of self._operations
AddVideoOp(video_path) ==
    [kind |-> "add_video", path |-> video_path, duration |-> 0, effect |-> "", mode |-> ""]

TransitionOp(duration, effect, mode) ==
    [kind |-> "transition", path |-> "", duration |-> duration, effect |-> effect,
     mode |-> mode]

\* os.path.exists(video_path)
os_path_exists(video_path) == video_path \in ExistingPaths

\* append with the existence check after the two list appends
deferred_append_unchecked(ops, video_path, duration, effect, mode) ==
    [operations |-> ops \o <<TransitionOp(duration, effect, mode), AddVideoOp(video_path)>>,
     err |-> IF os_path_exists(video_path) THEN "ok" ELSE "FileNotFoundError"]

\* append recording the transition before it checks the path
deferred_append_transition_first(ops, video_path, duration, effect, mode) ==
    IF ~os_path_exists(video_path)
    THEN [operations |-> Append(ops, TransitionOp(duration, effect, mode)),
          err |-> "FileNotFoundError"]
    ELSE [operations |-> ops \o <<TransitionOp(duration, effect, mode),
                                  AddVideoOp(video_path)>>,
          err |-> "ok"]

\* DeferredVideoSequence.append: the list afterwards and how the call ended
deferred_append(ops, video_path, duration, effect, mode) ==
    IF ~os_path_exists(video_path)
    THEN [operations |-> ops, err |-> "FileNotFoundError"]
    ELSE [operations |-> ops \o <<TransitionOp(duration, effect, mode),
                                  AddVideoOp(video_path)>>,
          err |-> "ok"]

\* [op for op in self._operations if op[0] == kind]
ops_of_kind(ops, kind) == SelectSeq(ops, LAMBDA o : o.kind = kind)

\* the loop with an increase crossfade adding its duration to the running total
RECURSIVE offset_loop_adds_increase(_, _, _, _, _)
offset_loop_adds_increase(video_ops, transition_ops, i, total_duration, offsets) ==
    IF i + 1 > Len(video_ops)
    THEN [total_duration |-> total_duration, offsets |-> offsets, err |-> "ok"]
    ELSE IF i > Len(transition_ops)
         THEN [total_duration |-> total_duration, offsets |-> offsets,
               err |-> "IndexError"]
         ELSE LET duration == transition_ops[i].duration
                  mode == transition_ops[i].mode
                  next_video_duration == get_video_duration(video_ops[i + 1].path)
                  xfade_offset ==
                      IF mode = CROSSFADE_NO_INCREASE THEN total_duration - duration
                      ELSE IF mode = CROSSFADE_INCREASE THEN total_duration
                      ELSE 0
                  total_after ==
                      IF mode = CROSSFADE_NO_INCREASE
                      THEN total_duration + next_video_duration - duration
                      ELSE IF mode = CROSSFADE_INCREASE
                           THEN total_duration + next_video_duration + duration
                           ELSE total_duration
              IN offset_loop_adds_increase(video_ops, transition_ops, i + 1, total_after,
                             Append(offsets, xfade_offset))

\* the loop of execute over video_ops[1:], from its i-th round on (i counts from
\* 1): the running total_duration and the xfade offsets emitted so far
RECURSIVE offset_loop(_, _, _, _, _)
offset_loop(video_ops, transition_ops, i, total_duration, offsets) ==
    IF i + 1 > Len(video_ops)
    THEN [total_duration |-> total_duration, offsets |-> offsets, err |-> "ok"]
    ELSE IF i > Len(transition_ops)
         THEN [total_duration |-> total_duration, offsets |-> offsets,
               err |-> "IndexError"]
         ELSE LET duration == transition_ops[i].duration
                  mode == transition_ops[i].mode
                  next_video_duration == get_video_duration(video_ops[i + 1].path)
                  xfade_offset ==
                      IF mode = CROSSFADE_NO_INCREASE THEN total_duration - duration
                      ELSE IF mode = CROSSFADE_INCREASE THEN total_duration
                      ELSE 0
                  total_after ==
                      IF mode = CROSSFADE_NO_INCREASE
                      THEN total_duration + next_video_duration - duration
                      ELSE IF mode = CROSSFADE_INCREASE
                           THEN total_duration + next_video_duration
                           ELSE total_duration
              IN offset_loop(video_ops, transition_ops, i + 1, total_after,
                             Append(offsets, xfade_offset))

\* execute up to the encode: ValueError with fewer than two videos, else the loop
deferred_offsets(ops) ==
    LET video_ops == ops_of_kind(ops, "add_video")
        transition_ops == ops_of_kind(ops, "transition")
    IN IF Len(video_ops) < 2
       THEN [total_duration |-> 0, offsets |-> <<>>, err |-> "ValueError"]
       ELSE offset_loop(video_ops, transition_ops, 1,
                        get_video_duration(video_ops[1].path), <<>>)

\* ------------------------------------------------- the encode of execute()
\* DEFAULT_VIDEO_CODEC as _get_hw_codec_and_accel chose it at import; h264_qsv
\* and h264_vaapi are treated by execute() as h264_nvenc is
VideoCodecs == {"libx264", "h264_videotoolbox", "h264_nvenc"}

\* what ffmpeg.probe reports of the existing files: bit_rate of the video stream
\* and height (get_video_resolution)
ProbedBitrate == [p \in ExistingPaths |-> IF p = "A.mp4" THEN 20000000 ELSE 3000000]
ProbedHeight == [p \in ExistingPaths |-> IF p = "A.mp4" THEN 1080 ELSE 480]

Max(S) == CHOOSE x \in S : \A y \in S : y <= x

\* max_bitrate over video_ops, 5 Mbps when none was detected
max_bitrate(video_ops) ==
    LET detected == Max({0} \cup {ProbedBitrate[video_ops[i].path] :
                                      i \in 1..Len(video_ops)})
    IN  IF detected = 0 THEN 5000000 ELSE detected

\* max_height over video_resolutions, DEFAULT_VIDEO_HEIGHT when there is none
max_height(video_ops) ==
    IF video_ops = <<>> THEN 1080
    ELSE Max({ProbedHeight[video_ops[i].path] : i \in 1..Len(video_ops)})

\* max_safe_bitrate of get_safe_bitrate_for_videotoolbox
max_safe_bitrate(height) ==
    IF height >= 1080 THEN 15000000
    ELSE IF height >= 720 THEN 8000000
    ELSE IF height >= 480 THEN 4000000
    ELSE 2000000

get_safe_bitrate_for_videotoolbox(detected_bitrate, height) ==
    IF detected_bitrate <= max_safe_bitrate(height)
    THEN detected_bitrate ELSE max_safe_bitrate(height)

\* target_bitrate of execute()
execute_target_bitrate(codec, video_ops) ==
    IF codec = "h264_videotoolbox"
    THEN get_safe_bitrate_for_videotoolbox(max_bitrate(video_ops), max_height(video_ops))
    ELSE max_bitrate(video_ops)

FinalBitrate == 5000000     \* the fixed last step of the ladder

\* bitrate_attempts; int(x * 0.75) and int(x * 0.5) of a non-negative integer
bitrate_attempts(target) ==
    <<target, (target * 3) \div 4, target \div 2, FinalBitrate>>

\* (a loop that gives up at the first failing attempt)
ladder_loop_single_attempt(attempts, outcomes, i, tried) ==
    [bitrates |-> Append(tried, attempts[i]),
     err |-> IF outcomes[i] THEN "ok" ELSE "ffmpeg.Error",
     raised |-> IF outcomes[i] THEN 0 ELSE i]

\* the for loop from its i-th round on (i from 1): the bitrates tried so far and
\* how the call ends. outcomes[i]: the i-th ffmpeg run returns (else it raises
\* ffmpeg.Error); raised: the attempt whose error the call raised (0: none)
RECURSIVE ladder_loop(_, _, _, _)
ladder_loop(attempts, outcomes, i, tried) ==
    IF i > Len(attempts) THEN [bitrates |-> tried, err |-> "ok", raised |-> 0]
    ELSE IF outcomes[i]
         THEN [bitrates |-> Append(tried, attempts[i]), err |-> "ok", raised |-> 0]
         ELSE IF i = Len(attempts)
              THEN [bitrates |-> Append(tried, attempts[i]), err |-> "ffmpeg.Error",
                    raised |-> i]
              ELSE ladder_loop(attempts, outcomes, i + 1, Append(tried, attempts[i]))

try_videotoolbox_encode_with_bitrate_fallback(target, outcomes) ==
    ladder_loop(bitrate_attempts(target), outcomes, 1, <<>>)

\* one ffmpeg run of the encode: 'vcodec' and 'b:v' of its parameters, and
\* whether it returned (ok) or raised ffmpeg.Error
EncodeRun(vcodec, bitrate, ok) == [vcodec |-> vcodec, bitrate |-> bitrate, ok |-> ok]

\* the inner try of execute(): the runs of the configured encoder.
\* outcomes[k]: the k-th ffmpeg run of this execute() returns (else ffmpeg.Error)
first_encode(codec, target, outcomes) ==
    IF codec = "h264_videotoolbox"
    THEN LET l == try_videotoolbox_encode_with_bitrate_fallback(target, outcomes)
         IN  [runs |-> [i \in 1..Len(l.bitrates) |->
                           EncodeRun(codec, l.bitrates[i], outcomes[i])],
              err |-> l.err]
    ELSE [runs |-> <<EncodeRun(codec, target, outcomes[1])>>,
          err |-> IF outcomes[1] THEN "ok" ELSE "ffmpeg.Error"]

\* (an encode whose failure is never retried in software)
encode_without_fallback(codec, target, outcomes) == first_encode(codec, target, outcomes)

\* ... and its except ffmpeg.Error as hw_error: one libx264 run at target_bitrate
\* unless the encoder was libx264 already
encode(codec, target, outcomes) ==
    LET first == first_encode(codec, target, outcomes)
    IN  IF first.err = "ok" THEN first
        ELSE IF codec # "libx264"
             THEN [runs |-> Append(first.runs,
                                   EncodeRun("libx264", target,
                                             outcomes[Len(first.runs) + 1])),
                   err |-> IF outcomes[Len(first.runs) + 1] THEN "ok"
                           ELSE "ffmpeg.Error"]
             ELSE first

\* an execute() makes five ffmpeg runs at most (four of the ladder, one more) and
\* none after one that succeeded: the outcomes are told apart by the number k of
\* runs that fail before the first that succeeds
EncodeOutcomes == {[i \in 1..5 |-> i > k] : k \in 0..5}

\* what execute leaves to be seen: the dictionary it returns and, of its loop,
\* the running total and the offsets given to the xfade filters
DeferredResult(out, actual_duration, loop) ==
    [kind |-> "deferred_execute", output_path |-> out, duration |-> actual_duration,
     total_duration |-> loop.total_duration, offsets |-> loop.offsets]

\* a call on the DeferredVideoSequence ended: only op, err, ret, operations and
\* encodes move
DeferredCall(name, e, r) ==
    /\ subject = "DeferredVideoSequence"
    /\ op' = name /\ err' = e /\ ret' = r
    /\ UNCHANGED <<planVars, probe, resolverVars, subject, builderVars, argVars,
                   video_codec>>

\* DeferredVideoSequence(video_path), movie(video_path): no object when it raises
Movie(video_path) ==
    /\ operations = <<>>
    /\ IF ~os_path_exists(video_path)
       THEN DeferredCall("movie", "FileNotFoundError", NoResult) /\ UNCHANGED operations
       ELSE DeferredCall("movie", "ok", NoResult)
            /\ operations' = <<AddVideoOp(video_path)>>
    /\ encodes' = <<>>

\* append(video_path, duration, effect, mode)
DeferredAppend(video_path, duration, effect, mode) ==
    /\ operations # <<>>
    /\ Len(ops_of_kind(operations, "add_video")) < MaxVideos
    /\ \E a \in {deferred_append(operations, video_path, duration, effect, mode)} :
          /\ operations' = a.operations
          /\ DeferredCall("append", a.err, NoResult)
    /\ encodes' = <<>>

\* execute(output_path); outcomes: which of its ffmpeg runs succeed; the probe
\* of the output then reports actual_duration
DeferredExecute(out, outcomes, actual_duration) ==
    /\ operations # <<>>
    /\ \E loop \in {deferred_offsets(operations)} :
       \E e \in {encode(video_codec,
                        execute_target_bitrate(video_codec,
                                               ops_of_kind(operations, "add_video")),
                        outcomes)} :
          IF loop.err # "ok"
          THEN DeferredCall("execute", loop.err, NoResult) /\ encodes' = <<>>
          ELSE /\ encodes' = e.runs
               /\ IF e.err # "ok"
                  THEN DeferredCall("execute", "RuntimeError", NoResult)
                  ELSE DeferredCall("execute", "ok",
                                    DeferredResult(out, actual_duration, loop))
    /\ UNCHANGED operations

InitDeferred ==
    /\ subject = "DeferredVideoSequence"
    /\ NewPlan
    /\ NoBuilder
    /\ operations = <<>>
    /\ video_codec \in VideoCodecs
    /\ encodes = <<>>
    /\ NoArgs

NextDeferred ==
    \/ \E p \in Paths : Movie(p)
    \/ \E p \in Paths, d \in AppendDurations, m \in TransitionMode :
          DeferredAppend(p, d, FADE, m)
    \/ \E out \in OutputPaths, outcomes \in EncodeOutcomes, fd \in DurationValues :
          DeferredExecute(out, outcomes, fd)

SpecDeferred == InitDeferred /\ [][NextDeferred]_vars

\* ----------------------------------------------------- VideoSequenceBuilder
MaxAdds == 2       \* most items a VideoSequenceBuilder is grown to

\* Transition.duration when the constructor is given none
DefaultTransitionDuration == 1

\* mode arguments given to add_crossfade()
BuilderModes == {CROSSFADE_INCREASE, CROSSFADE_NO_INCREASE}

\* build() handing out self._sequence itself
build_no_copy(seq) == [returned |-> TRUE, alias |-> TRUE, value |-> seq]

\* build(): self._sequence.copy(), a new list with the items of seq
build(seq) == [returned |-> TRUE, alias |-> FALSE, value |-> seq]

\* the list build() returned, after self._sequence became seq: a list that is
\* self._sequence itself shows what was done to it, a copy shows nothing
after_update(list, seq) == IF list.alias THEN [list EXCEPT !.value = seq] ELSE list

\* a call on the VideoSequenceBuilder returned (none of its methods raises)
BuilderCall(name) ==
    /\ subject = "VideoSequenceBuilder"
    /\ op' = name /\ err' = "ok" /\ ret' = NoResult
    /\ UNCHANGED <<planVars, probe, resolverVars, subject, deferredVars, argVars>>

\* self._sequence.append(item) in the three add_* methods
builder_append(item) ==
    /\ Len(builder_sequence) < MaxAdds
    /\ builder_sequence' = Append(builder_sequence, item)
    /\ built' = after_update(built, builder_sequence')
    /\ added' = Append(added, item)

\* add_video(path)
AddVideo(path) ==
    /\ builder_append(VideoClip(path))
    /\ BuilderCall("add_video")

\* add_simple_transition()
AddSimpleTransition ==
    /\ builder_append(TransitionSpec(NONE, DefaultTransitionDuration))
    /\ BuilderCall("add_simple_transition")

\* add_crossfade(duration, mode)
AddCrossfade(duration, mode) ==
    /\ builder_append(TransitionSpec(mode, duration))
    /\ BuilderCall("add_crossfade")

\* build()
Build ==
    /\ built' = build(builder_sequence)
    /\ BuilderCall("build")
    /\ UNCHANGED <<builder_sequence, added>>

\* clear()
Clear ==
    /\ builder_sequence' = <<>>
    /\ built' = after_update(built, builder_sequence')
    /\ added' = <<>>
    /\ BuilderCall("clear")

InitBuilder ==
    /\ subject = "VideoSequenceBuilder"
    /\ NewPlan
    /\ NoBuilder
    /\ NoDeferred
    /\ NoArgs

NextBuilder ==
    \/ \E p \in ExistingPaths : AddVideo(p)
    \/ AddSimpleTransition
    \/ \E d \in CrossfadeInputs, m \in BuilderModes : AddCrossfade(d, m)
    \/ Build
    \/ Clear

SpecBuilder == InitBuilder /\ [][NextBuilder]_vars

\* ------------------------------------------------- build_sequence_from_args
MaxArgs == 3       \* longest videos list and longest transitions list given

\* the lists of at most n elements of S
ListsUpTo(S, n) == UNION {[1..k -> S] : k \in 0..n}

\* the transitions a caller passes: crossfades, and NONE with and without the
\* default duration
ArgTransitions ==
    {TransitionSpec(NONE, DefaultTransitionDuration)}
    \cup {TransitionSpec(m, d) : m \in TransitionMode, d \in CrossfadeInputs \ {0}}

\* the loop with a transition appended after the last video too
RECURSIVE sequence_loop_trailing(_, _, _, _)
sequence_loop_trailing(videos, transitions, i, sequence) ==
    IF i > Len(videos) THEN sequence
    ELSE sequence_loop_trailing(videos, transitions, i + 1,
             Append(sequence, VideoClip(videos[i]))
             \o <<IF i <= Len(transitions) THEN transitions[i]
                  ELSE TransitionSpec(NONE, DefaultTransitionDuration)>>)

\* for i, video_path in enumerate(videos), from the i-th video on (i counts from 1)
RECURSIVE sequence_loop(_, _, _, _)
sequence_loop(videos, transitions, i, sequence) ==
    IF i > Len(videos) THEN sequence
    ELSE sequence_loop(videos, transitions, i + 1,
             Append(sequence, VideoClip(videos[i]))
             \o (IF i < Len(videos)
                 THEN <<IF i <= Len(transitions) THEN transitions[i]
                        ELSE TransitionSpec(NONE, DefaultTransitionDuration)>>
                 ELSE <<>>))

build_sequence_from_args(videos, transitions) ==
    sequence_loop(videos, transitions, 1, <<>>)

SequenceResult(sequence) == [kind |-> "sequence", sequence |-> sequence]

\* one call build_sequence_from_args(arg_videos, arg_transitions)
BuildSequenceFromArgs ==
    /\ subject = "build_sequence_from_args"
    /\ op' = "build_sequence_from_args"
    /\ err' = "ok"
    /\ ret' = SequenceResult(build_sequence_from_args(arg_videos, arg_transitions))
    /\ UNCHANGED <<planVars, probe, resolverVars, subject, builderVars, deferredVars,
                   argVars>>

InitArgs ==
    /\ subject = "build_sequence_from_args"
    /\ NewPlan
    /\ NoBuilder
    /\ NoDeferred
    /\ arg_videos \in ListsUpTo(ExistingPaths, MaxArgs)
    /\ arg_transitions \in ListsUpTo(ArgTransitions, MaxArgs)
    /\ NoLadder

NextArgs == BuildSequenceFromArgs

SpecArgs == InitArgs /\ [][NextArgs]_vars

\* ---------------------------- try_videotoolbox_encode_with_bitrate_fallback
MaxTargetMbps == 16   \* largest target bitrate given, in Mbps

\* target bitrates given: whole Mbps, and one bit per second more (int() rounds)
TargetBitrates == {m * 1000000 + r : m \in 1..MaxTargetMbps, r \in {0, 1}}

LadderResult(r) == [kind |-> "ladder", bitrates |-> r.bitrates, raised |-> r.raised]

\* one call try_videotoolbox_encode_with_bitrate_fallback(.., target_bitrate, ..)
TryVideotoolboxEncode ==
    /\ subject = "try_videotoolbox_encode_with_bitrate_fallback"
    /\ \E r \in {try_videotoolbox_encode_with_bitrate_fallback(target_bitrate,
                                                               attempt_outcomes)} :
          /\ op' = "try_videotoolbox_encode_with_bitrate_fallback"
          /\ err' = r.err
          /\ ret' = LadderResult(r)
    /\ UNCHANGED <<planVars, probe, resolverVars, subject, builderVars, deferredVars,
                   argVars>>

InitLadder ==
    /\ subject = "try_videotoolbox_encode_with_bitrate_fallback"
    /\ NewPlan
    /\ NoBuilder
    /\ NoDeferred
    /\ arg_videos = <<>>
    /\ arg_transitions = <<>>
    /\ target_bitrate \in TargetBitrates
    /\ attempt_outcomes \in [1..4 -> BOOLEAN]

NextLadder == TryVideotoolboxEncode

SpecLadder == InitLadder /\ [][NextLadder]_vars

\* --------------------------------------------------------- any one object
InitAll == Init \/ InitBuilder \/ InitDeferred

NextAll == Next \/ NextBuilder \/ NextDeferred

SpecAll == InitAll /\ [][NextAll]_vars

\* =================================================================== claims
BuilderOps == {"append", "crossfade", "simple", "output"}
FreezingOps == {"dry_run", "execute"}
FrozenError == "RuntimeError: plan is frozen"

Indices(its) == 1..Len(its)
isCompress(it) == isTransitionSpec(it) /\ it.mode = CROSSFADE_NO_INCREASE
isExtend(it) == isTransitionSpec(it) /\ it.mode = CROSSFADE_INCREASE

\* the sum of the durations of the items of its at the indices in S
RECURSIVE SumDurations(_, _)
SumDurations(its, S) ==
    IF S = {} THEN 0
    ELSE LET i == CHOOSE x \in S : TRUE
         IN its[i].duration + SumDurations(its, S \ {i})

\* (sum of clips) - (sum of compress crossfades) + (sum of extend crossfades)
ClosedFormTotal(its) ==
    SumDurations(its, {i \in Indices(its) : isVideoClip(its[i])})
    - SumDurations(its, {i \in Indices(its) : isCompress(its[i])})
    + SumDurations(its, {i \in Indices(its) : isExtend(its[i])})

\* the indices of the clips of its that have no duration yet, in sequence order
UnresolvedInOrder(its) ==
    SelectSeq([i \in Indices(its) |-> i],
              LAMBDA i : isVideoClip(its[i]) /\ ~its[i].resolved)

AllClipsResolved(its) == \A i \in Indices(its) : isVideoClip(its[i]) => its[i].resolved

\* a compress crossfade at i that is as long as, or longer than, the clip before it
LongCompressAt(its, i) ==
    /\ i \in 2..Len(its)
    /\ isCompress(its[i])
    /\ isVideoClip(its[i - 1])
    /\ its[i].duration >= its[i - 1].duration

\* strict alternation: clip first, clips at the odd places, transitions at the
\* even ones, a clip last (so one transition fewer than clips)
Alternating(its) ==
    /\ its # <<>>
    /\ \A i \in Indices(its) : isVideoClip(its[i]) <=> (i % 2 = 1)
    /\ Len(its) % 2 = 1

\* what dry_run() returns when it is called on the plan as it stands
DryRunReturns == DryRunResult(items, output_path, legacy_static_crossfade)

\* C1: once the plan is Frozen, every append(), crossfade(), simple() and
\* output() call raises the state error and leaves the item sequence, the output
\* target and the state as they were.
C1_FrozenRejectsMutation ==
    [][(state = FROZEN /\ op' \in BuilderOps) =>
          /\ err' = FrozenError
          /\ items' = items
          /\ output_path' = output_path
          /\ state' = state]_vars

C1_Witness == state = FROZEN /\ op \in BuilderOps /\ err = FrozenError

\* C2: once the plan is Frozen, the total duration and the graph preview that
\* dry_run() returns are changed by no public call (dry_run, execute, rejected
\* mutations, legacy_static).
C2_FrozenDryRunStable ==
    [][state = FROZEN =>
          /\ DryRunReturns'.timeline_total = DryRunReturns.timeline_total
          /\ DryRunReturns'.graph_preview = DryRunReturns.graph_preview]_vars

\* C3: in Building state crossfade() and simple() fail, and leave the sequence
\* unchanged, when the sequence is empty or its last element is a transition.
C3_TransitionNeedsClipBefore ==
    [][(/\ state = BUILDING
        /\ op' \in {"crossfade", "simple"}
        /\ (items = <<>> \/ isTransitionSpec(items[Len(items)]))) =>
          (err' # "ok" /\ items' = items)]_vars

C5_FreezePreconditions ==
    [][(/\ state = BUILDING
        /\ op' \in FreezingOps
        /\ (items = <<>> \/ ~isVideoClip(items[1]) \/ output_path = NoOutput)) =>
          /\ err' = "ValueError"
          /\ ret' = NoResult
          /\ state' = BUILDING
          /\ items' = items
          /\ resolveLog' = <<>>
          /\ resolveCalls' = resolveCalls]_vars

C5_Witness ==
    /\ op \in FreezingOps
    /\ err = "ValueError"
    /\ state = BUILDING
    /\ output_path = NoOutput
    /\ UnresolvedInOrder(items) # <<>>

\* C6: no Frozen plan holds a compress crossfade whose duration is greater than
\* or equal to the resolved duration of the clip right before it (freeze()
\* rejects such a plan).
C6_FrozenRejectsLongCompress ==
    state = FROZEN => ~\E i \in Indices(items) : LongCompressAt(items, i)

\* C7 (as claimed): over any number of freeze() calls the resolver is called at
\* most once for each clip.
C7_AtMostOneCallPerClip == \A i \in DOMAIN resolveCalls : resolveCalls[i] <= 1

\* C7 (amended): freeze() calls the resolver only for clips that have no
\* duration yet, so the resolver returns at most once for each clip, and a
\* freeze() on a Frozen plan makes no resolver call and changes nothing.
C7_ResolvedAtMostOnce ==
    [][/\ \A i \in DOMAIN resolveOk : resolveOk'[i] <= 1
       /\ op' \in FreezingOps =>
             \A k \in DOMAIN resolveLog' : ~items[resolveLog'[k]].resolved
       /\ (state = FROZEN /\ op' \in FreezingOps) =>
             /\ resolveLog' = <<>>
             /\ resolveCalls' = resolveCalls
             /\ resolveOk' = resolveOk
             /\ planVars' = planVars]_vars

C7_Witness ==
    /\ state = FROZEN
    /\ \E i \in DOMAIN resolveCalls : resolveCalls[i] = 2 /\ resolveOk[i] = 1

\* C8: a freeze() that succeeds calls the resolver exactly once for each clip
\* that has no duration, in sequence order, and the plan is Frozen only with
\* every clip resolved.
C8_ResolveInSequenceOrder ==
    [][/\ (state = BUILDING /\ state' = FROZEN) =>
             /\ resolveLog' = UnresolvedInOrder(items)
             /\ \A i \in Indices(items) :
                   resolveCalls'[i] = resolveCalls[i] + Times(i, UnresolvedInOrder(items))
       /\ state' = FROZEN => AllClipsResolved(items')]_vars

C8_Witness == state = FROZEN /\ Len(resolveLog) >= 2 /\ fails = 0

\* C9: when the resolver fails during freeze(), the plan stays Building,
\* dry_run()/execute() return nothing, and the builder calls made next are not
\* rejected as made on a frozen plan.
C9_NoPartialFreeze ==
    [][/\ err' = "ProbeError" =>
             (op' \in FreezingOps /\ state' = BUILDING /\ ret' = NoResult)
       /\ (err = "ProbeError" /\ op' \in BuilderOps) => err' # FrozenError
       /\ (err = "ProbeError" /\ op' \in BuilderOps /\ Len(items) < MaxItems) =>
             \/ err' = "ok"
             \/ op' = "append" /\ err' = "FileNotFoundError"
             \/ op' = "crossfade" /\ err' = "ValueError"]_vars

C9_Witness ==
    /\ fails > 0
    /\ state = BUILDING
    /\ op \in BuilderOps
    /\ err = "ok"
    /\ \E i \in Indices(items) : items[i].resolved

RECURSIVE SegmentsTotal(_)
SegmentsTotal(segments_list) ==
    IF segments_list = <<>> THEN 0
    ELSE Head(segments_list).t + SegmentsTotal(Tail(segments_list))

\* a valid sequence: strictly alternating, and every crossfade shorter than the
\* clips on both sides of it
ValidSequence(its) ==
    /\ Alternating(its)
    /\ \A i \in Indices(its) :
          (isCompress(its[i]) \/ isExtend(its[i])) =>
              /\ its[i].duration > 0
              /\ its[i].duration < its[i - 1].duration
              /\ its[i].duration < its[i + 1].duration

\* C11: for every valid sequence, the segments concatenate_videos_advanced emits
\* for rendering (each clip at its trimmed or full length, one crossfade segment
\* of duration d per crossfade) add up to the total calculate_sequence_duration
\* returns for the same sequence.
C11_SegmentsSumToTotal ==
    (ret.kind = "execute" /\ ValidSequence(items)) =>
        SegmentsTotal(ret.segments) = ret.legacy_total

\* the operations of a DeferredVideoSequence as a sequence of clips and transitions
OperationsAsSequence(ops) ==
    [i \in 1..Len(ops) |->
        IF ops[i].kind = "add_video" THEN VideoClip(ops[i].path)
        ELSE TransitionSpec(ops[i].mode, ops[i].duration)]

\* C12: for every sequence of two or more clips, the running total the offset
\* loop of DeferredVideoSequence.execute holds after the last transition equals
\* the timeline fold total (sum of clips, minus every no_increase duration, plus
\* every increase duration) of the same clips and transitions.
C12_RunningTotalIsFoldTotal ==
    ret.kind = "deferred_execute" =>
        ret.total_duration =
            calculate_sequence_duration(OperationsAsSequence(operations), 1, 0)

\* the item stays what it was, but for a clip that got its duration resolved
SameItemResolved(before, after) ==
    \/ after = before
    \/ /\ isVideoClip(before)
       /\ ~before.resolved
       /\ after = [before EXCEPT !.resolved = TRUE, !.duration = probe[before.path]]

\* C13 (as stated): dry_run() is side-effect-free: it leaves the plan's state,
\* item sequence and clip durations exactly as they were before the call.
C13_DryRunSideEffectFree ==
    [][op' = "dry_run" => (state' = state /\ items' = items)]_vars

\* C13 (amended): dry_run() never changes the output target, the legacy flag or
\* the order, paths, modes and transition durations of the items, and changes
\* nothing at all on a Frozen plan; on a Building plan a dry_run() that returns
\* has resolved every clip's duration and moved the plan to Frozen, and one that
\* raises leaves the plan Building.
C13_DryRunOnlyFreezes ==
    [][op' = "dry_run" =>
          /\ output_path' = output_path
          /\ legacy_static_crossfade' = legacy_static_crossfade
          /\ Len(items') = Len(items)
          /\ \A i \in Indices(items) : SameItemResolved(items[i], items'[i])
          /\ state = FROZEN => (state' = FROZEN /\ items' = items /\ err' = "ok")
          /\ err' = "ok" => (state' = FROZEN /\ AllClipsResolved(items'))
          /\ err' # "ok" => state' = BUILDING]_vars

\* a dry_run() that returned on a plan it had to resolve clips of
C13_Witness ==
    /\ op = "dry_run"
    /\ err = "ok"
    /\ state = FROZEN
    /\ resolveLog # <<>>
    /\ Len(items) = MaxItems

\* the state errors a call can be rejected with
StateErrors == {FrozenError, "AlreadyExecuted"}

\* C14: execute() is valid only once per plan: after one successful execute()
\* the plan is in the Executed state, and an execute() that follows a successful
\* one is rejected with a state error (the renderer is not run, nothing is
\* returned).
C14_ExecuteOnlyOnce ==
    [][/\ (op' = "execute" /\ err' = "ok") => state' = EXECUTED
       /\ (op = "execute" /\ err = "ok" /\ op' = "execute") =>
              (err' \in StateErrors /\ ret' = NoResult)]_vars

\* a crossfade item (of a plan, of a builder) or operation (of a deferred
\* sequence) with a duration that is not positive
NonPositiveCrossfade(it) ==
    /\ it.mode \in {CROSSFADE_NO_INCREASE, CROSSFADE_INCREASE}
    /\ it.duration <= 0

\* the sequence the object under exercise holds
HeldSequence ==
    IF subject = "VideoConcatPlan" THEN items
    ELSE IF subject = "VideoSequenceBuilder" THEN builder_sequence
    ELSE operations

\* C15: in every API that adds a crossfade (VideoConcatPlan.crossfade,
\* VideoSequenceBuilder.add_crossfade, DeferredVideoSequence.append) a duration
\* <= 0 is refused by the constructing call, so no reachable sequence of any of
\* the three holds a crossfade with a non-positive duration.
C15_NoNonPositiveCrossfade ==
    \A i \in 1..Len(HeldSequence) : ~NonPositiveCrossfade(HeldSequence[i])

MissingPaths == Paths \ ExistingPaths

\* C16: appending a clip whose path does not exist fails with FileNotFoundError
\* and leaves the sequence exactly as it was: VideoConcatPlan.append (on a
\* Building plan) adds no item, DeferredVideoSequence.append adds neither the
\* transition nor the video operation.
C16_MissingPathChangesNothing ==
    [][\A p \in MissingPaths :
          /\ (state = BUILDING /\ AppendClip(p)) =>
                 (op' = "append" /\ err' = "FileNotFoundError" /\ planVars' = planVars)
          /\ (\E d \in AppendDurations, m \in TransitionMode :
                  DeferredAppend(p, d, FADE, m)) =>
                 (op' = "append" /\ err' = "FileNotFoundError"
                  /\ operations' = operations)]_vars

\* a DeferredVideoSequence of two videos on which an append has just failed
C16_Witness ==
    /\ subject = "DeferredVideoSequence"
    /\ op = "append"
    /\ err = "FileNotFoundError"
    /\ Len(operations) = 3

\* dry_run() has just returned for a plan [A, compress crossfade, B]
DryRunOfCompressPair ==
    /\ op = "dry_run"
    /\ ret.kind = "dry_run"
    /\ Len(items) = 3
    /\ isVideoClip(items[1])
    /\ isCompress(items[2])
    /\ isVideoClip(items[3])

\* the preview with the first input printed at the duration a_dur
CompressPairPreview(a_dur) ==
    <<Line("header", "", 0, 0),
      Line("input", items[1].path, 0, a_dur),
      Line("xfade", "no_increase", 1, items[2].duration),
      Line("input", items[3].path, 1, items[3].duration),
      Line("final output", output_path, 0, 0),
      Line("total", "", 0, items[1].duration + items[3].duration - items[2].duration)>>

\* C17 (as stated): the preview of [A, compress(d), B] lists A at its trimmed
\* length duration(A) - d, one transition of duration d, B untrimmed, and the
\* total duration(A) + duration(B) - d.
C17_PreviewListsTrim ==
    DryRunOfCompressPair =>
        ret.graph_preview = CompressPairPreview(items[1].duration - items[2].duration)

\* C17 (amended): the preview of [A, compress(d), B] lists A as an input at its
\* full resolved duration, one xfade(no_increase) node of duration d, B as an
\* input at its full duration, and the total duration(A) + duration(B) - d,
\* which is also the timeline_total returned.
C17_PreviewListsFullInputs ==
    DryRunOfCompressPair =>
        /\ ret.graph_preview = CompressPairPreview(items[1].duration)
        /\ ret.timeline_total =
               items[1].duration + items[3].duration - items[2].duration

\* dry_run() of [B, compress(3), A] with B longer than the crossfade
C17_Witness ==
    /\ DryRunOfCompressPair
    /\ items[1].duration > items[2].duration
    /\ items[1].path # items[3].path

BuilderMutators == {"add_video", "add_simple_transition", "add_crossfade", "clear"}

\* C18: VideoSequenceBuilder keeps call order and hands out snapshots: build()
\* returns exactly the items added since construction or the last clear(), in
\* call order; a build() right after clear() returns the empty list; and a list
\* build() has returned is not changed by a later add_* or clear() call.
C18_BuildReturnsSnapshot ==
    [][/\ op' = "build" => (built'.returned /\ built'.value = added)
       /\ (op = "clear" /\ op' = "build") => built'.value = <<>>
       /\ op' \in BuilderMutators => built'.value = built.value]_vars

\* a non-empty list that build() returned, after the builder was cleared and
\* given another item
C18_Witness ==
    /\ built.returned
    /\ Len(built.value) = MaxAdds
    /\ op \in BuilderMutators \ {"clear"}
    /\ Len(builder_sequence) = 1
    /\ builder_sequence[1] # built.value[1]

\* C19: build_sequence_from_args, for n >= 1 videos and any transitions, returns
\* exactly 2n-1 items: the i-th video (from 0) at index 2i, and at index 2i+1
\* (for i < n-1) transitions[i] when there is one and a NONE transition
\* otherwise; transitions beyond the first n-1 are ignored.
C19_SequenceAlternates ==
    (ret.kind = "sequence" /\ Len(arg_videos) >= 1) =>
        LET n == Len(arg_videos)
            r == ret.sequence
        IN /\ Len(r) = 2 * n - 1
           /\ Alternating(r)
           /\ \A i \in 0..(n - 1) :
                 /\ r[2 * i + 1] = VideoClip(arg_videos[i + 1])
                 /\ i < n - 1 =>
                        r[2 * i + 2] =
                            IF i < Len(arg_transitions) THEN arg_transitions[i + 1]
                            ELSE TransitionSpec(NONE, DefaultTransitionDuration)

\* three videos with one transition given: the second one is the default
C19_Witness ==
    /\ ret.kind = "sequence"
    /\ Len(arg_videos) = 3
    /\ Len(arg_transitions) = 1
    /\ arg_transitions[1].mode # NONE

\* the indices of the clips of its, in sequence order
ClipIndices(its) ==
    SelectSeq([i \in Indices(its) |-> i], LAMBDA i : isVideoClip(its[i]))

\* the video inputs among the segments handed to the renderer, in order
VideoInputs(segments_list) == SelectSeq(segments_list, LAMBDA sg : sg.kind = "video")

FollowedByCompress(its, i) == i < Len(its) /\ isCompress(its[i + 1])

\* C20: in the segments concatenate_videos_advanced derives, a clip immediately
\* followed by a compress (no_increase) crossfade of duration d is emitted
\* trimmed to its own duration minus d, and every other clip (followed by a cut,
\* by an extend crossfade, by another clip, or last) is emitted untrimmed at
\* full length.
C20_TrimOnlyBeforeCompress ==
    ret.kind = "execute" =>
        LET clips == ClipIndices(items)
            inputs == VideoInputs(ret.segments)
        IN /\ Len(inputs) = Len(clips)
           /\ \A k \in 1..Len(clips) :
                 LET i == clips[k] IN
                 inputs[k] =
                     IF FollowedByCompress(items, i)
                     THEN VideoInput(items[i].path, TRUE,
                                     items[i].duration - items[i + 1].duration)
                     ELSE VideoInput(items[i].path, FALSE, items[i].duration)

\* an executed plan with a clip before a compress crossfade and an untrimmed
\* clip after it
C20_Witness ==
    /\ ret.kind = "execute"
    /\ Len(items) = 3
    /\ FollowedByCompress(items, 1)
    /\ isVideoClip(items[3])
    /\ items[1].duration > items[2].duration
    /\ Len(ret.segments) = 3

VideoOps == ops_of_kind(operations, "add_video")
TransitionOps == ops_of_kind(operations, "transition")

\* the running offset before the k-th transition (k from 1; k = number of
\* transitions + 1: after the last one), by the rule: first clip's duration,
\* then + next clip - d for a no_increase, + next clip for an increase, nothing
\* for NONE
RECURSIVE RunningOffset(_)
RunningOffset(k) ==
    IF k = 1 THEN probe[VideoOps[1].path]
    ELSE RunningOffset(k - 1)
         + (IF TransitionOps[k - 1].mode = CROSSFADE_NO_INCREASE
            THEN probe[VideoOps[k].path] - TransitionOps[k - 1].duration
            ELSE IF TransitionOps[k - 1].mode = CROSSFADE_INCREASE
                 THEN probe[VideoOps[k].path]
                 ELSE 0)

\* C21: in DeferredVideoSequence.execute, with the running offset starting at
\* the first clip's duration, a no_increase crossfade of duration d is emitted
\* with offset = running offset - d and the running offset then grows by next
\* clip - d; an increase crossfade is emitted with offset = running offset and
\* the running offset then grows by the next clip; for every transition, in
\* source order.
C21_OffsetsFollowRunningOffset ==
    ret.kind = "deferred_execute" =>
        /\ Len(ret.offsets) = Len(TransitionOps)
        /\ \A k \in 1..Len(TransitionOps) :
              /\ TransitionOps[k].mode = CROSSFADE_NO_INCREASE =>
                     ret.offsets[k] = RunningOffset(k) - TransitionOps[k].duration
              /\ TransitionOps[k].mode = CROSSFADE_INCREASE =>
                     ret.offsets[k] = RunningOffset(k)
        /\ ret.total_duration = RunningOffset(Len(TransitionOps) + 1)

\* an executed sequence of three videos with an increase crossfade first and a
\* no_increase crossfade after it
C21_Witness ==
    /\ ret.kind = "deferred_execute"
    /\ Len(TransitionOps) = 2
    /\ TransitionOps[1].mode = CROSSFADE_INCREASE
    /\ TransitionOps[1].duration > 0
    /\ TransitionOps[2].mode = CROSSFADE_NO_INCREASE

\* the items of its that are not cuts (NONE transitions), in sequence order
NonCutItems(its) == SelectSeq(its, LAMBDA it : isVideoClip(it) \/ it.mode # NONE)

\* the segment sg is the node of the item it
NodeOf(sg, it) ==
    IF isVideoClip(it) THEN sg.kind = "video" /\ sg.path = it.path
    ELSE sg.kind = "crossfade" /\ sg.t = it.duration

\* C22: the segments concatenate_videos_advanced derives hold exactly one video
\* node per clip of the sequence and one crossfade node per non-cut transition
\* (none for a cut), in the order of their source items.
C22_OneNodePerItemInOrder ==
    ret.kind = "execute" =>
        LET src == NonCutItems(items) IN
        /\ Len(ret.segments) = Len(src)
        /\ \A k \in 1..Len(src) : NodeOf(ret.segments[k], src[k])

\* an executed plan [clip, cut, clip]: two nodes for three items
C22_Witness ==
    /\ ret.kind = "execute"
    /\ Len(items) = 3
    /\ items[2].mode = NONE
    /\ isVideoClip(items[3])
    /\ items[1].path # items[3].path
    /\ Len(ret.segments) = 2

\* a transition (cut or crossfade) of its that no clip follows immediately
DanglingAt(its, i) ==
    /\ isTransitionSpec(its[i])
    /\ (i = Len(its) \/ ~isVideoClip(its[i + 1]))

Dangling(its) == \E i \in Indices(its) : DanglingAt(its, i)

\* C23: deriving a composition from a sequence in which some transition (cut or
\* crossfade) is not immediately followed by a clip fails, and the renderer is
\* never started: no execute() of such a sequence returns a result.
C23_DanglingTransitionFails ==
    (op = "execute" /\ Dangling(items)) => (err # "ok" /\ ret = NoResult)

\* C24 (as stated): execute() makes no duration-resolver call for the plan's
\* clips beyond the one freeze() makes per clip.
C24_ExecuteProbesNothingMore ==
    ret.kind = "execute" => ret.legacy_probes = <<>>

\* C24 (amended): the duration a plan holds for a clip is assigned once, by
\* freeze(), and never changed afterwards; but an execute() that returns has
\* called the resolver twice more for every clip of the plan, inside
\* concatenate_videos_advanced, whether or not its own freeze() had to resolve
\* anything.
C24_StoredOnceProbedAgain ==
    [][/\ \A i \in Indices(items) :
             (isVideoClip(items[i]) /\ items[i].resolved) => items'[i] = items[i]
       /\ (op' = "execute" /\ err' = "ok") =>
             /\ \A i \in Indices(items') :
                   Times(i, ret'.legacy_probes) = IF isVideoClip(items'[i]) THEN 2 ELSE 0
             /\ state = FROZEN => resolveLog' = <<>>]_vars

\* a second execute() of a plan of two clips: nothing left for freeze() to
\* resolve, four calls in the pipeline
C24_Witness ==
    /\ ret.kind = "execute"
    /\ resolveLog = <<>>
    /\ Len(ret.legacy_probes) = 4

\* --- C25 / C26: the bitrate ladder of try_videotoolbox_encode_with_bitrate_fallback
LadderCalled == ret.kind = "ladder"

\* b is pct percent of n, cut to a whole number as int() does
IsPercentOf(b, pct, n) == 100 * b <= pct * n /\ pct * n < 100 * (b + 1)

\* the first attempt that succeeds (5 if none does)
FirstSuccess ==
    IF \E i \in 1..4 : attempt_outcomes[i]
    THEN CHOOSE i \in 1..4 : attempt_outcomes[i] /\ \A j \in 1..(i - 1) : ~attempt_outcomes[j]
    ELSE 5

\* C25: the call makes at most four attempts, in the order target, 75 % of
\* target, 50 % of target, 5 Mbps; it returns right after the first attempt that
\* succeeds, and it raises only when the fourth attempt has failed, raising
\* that attempt's error.
C25_LadderOrderAndStop ==
    LadderCalled =>
        /\ Len(ret.bitrates) <= 4
        /\ Len(ret.bitrates) = (IF FirstSuccess = 5 THEN 4 ELSE FirstSuccess)
        /\ \A i \in 1..Len(ret.bitrates) :
              /\ i = 1 => ret.bitrates[i] = target_bitrate
              /\ i = 2 => IsPercentOf(ret.bitrates[i], 75, target_bitrate)
              /\ i = 3 => IsPercentOf(ret.bitrates[i], 50, target_bitrate)
              /\ i = 4 => ret.bitrates[i] = 5000000
        /\ (err = "ok") <=> (FirstSuccess # 5)
        /\ (err # "ok") => (err = "ffmpeg.Error" /\ ret.raised = 4)
        /\ (err = "ok") => ret.raised = 0

\* a call whose first two attempts fail and whose third succeeds
C25_Witness ==
    /\ LadderCalled
    /\ FirstSuccess = 3
    /\ Len(ret.bitrates) = 3
    /\ err = "ok"

\* C26: for every target bitrate, each attempt's bitrate is less than or equal
\* to the bitrate of the attempt before it.
C26_AttemptsNeverIncrease ==
    LadderCalled =>
        \A i \in 2..Len(ret.bitrates) : ret.bitrates[i] <= ret.bitrates[i - 1]

\* --- C27: the software fallback of execute()
\* the execute() that ended came to encode
ExecuteEncoded == op = "execute" /\ Len(VideoOps) >= 2

\* the runs the configured encoder gets: the whole ladder, or one
ConfiguredRuns == IF video_codec = "h264_videotoolbox" THEN 4 ELSE 1

\* the configured encoder's encode failed: each of its runs was made and failed
ConfiguredEncodeFailed ==
    /\ Len(encodes) >= ConfiguredRuns
    /\ \A k \in 1..ConfiguredRuns : encodes[k].vcodec = video_codec /\ ~encodes[k].ok

\* C27: an execute() that comes to encode makes, when the configured encoder is
\* not libx264 and its encode fails, exactly one further run, with libx264 at
\* the same target bitrate, and no libx264 run otherwise; a failed libx264
\* encode is not retried; a final failure reaches the caller as RuntimeError
\* without a result dictionary.
C27_SoftwareFallbackOnce ==
    ExecuteEncoded =>
        /\ encodes # <<>>
        /\ (video_codec # "libx264" /\ ConfiguredEncodeFailed) =>
               /\ Len(encodes) = ConfiguredRuns + 1
               /\ encodes[ConfiguredRuns + 1].vcodec = "libx264"
               /\ encodes[ConfiguredRuns + 1].bitrate = encodes[1].bitrate
        /\ (video_codec # "libx264" /\ ~ConfiguredEncodeFailed) =>
               \A k \in 1..Len(encodes) : encodes[k].vcodec = video_codec
        /\ video_codec = "libx264" =>
               Len(encodes) = 1 /\ encodes[1].vcodec = "libx264"
        /\ IF encodes[Len(encodes)].ok
           THEN err = "ok" /\ ret.kind = "deferred_execute"
           ELSE err = "RuntimeError" /\ ret = NoResult

\* an execute() whose whole ladder failed and whose libx264 run failed as well
C27_Witness ==
    /\ ExecuteEncoded
    /\ video_codec = "h264_videotoolbox"
    /\ ConfiguredEncodeFailed
    /\ Len(encodes) = 5
    /\ encodes[5].vcodec = "libx264"
    /\ err = "RuntimeError"

\* --- C30: the ladder and the safe maximum
\* the greatest height among the videos of the sequence
MaxInputHeight == Max({ProbedHeight[VideoOps[i].path] : i \in 1..Len(VideoOps)})

\* the safe maximum for a height: 15 Mbps at 1080 and above, 8 Mbps at 720 and
\* above, 4 Mbps at 480 and above, 2 Mbps below
SafeMaximum(height) ==
    IF height >= 1080 THEN 15 * 1000000
    ELSE IF height >= 720 THEN 8 * 1000000
    ELSE IF height >= 480 THEN 4 * 1000000
    ELSE 2 * 1000000

\* C30: with h264_videotoolbox as the encoder, every bitrate execute() passes
\* to an encode attempt is at most the safe maximum for the inputs' greatest
\* height.
C30_EncodesWithinSafeMaximum ==
    (ExecuteEncoded /\ video_codec = "h264_videotoolbox") =>
        \A k \in 1..Len(encodes) : encodes[k].bitrate <= SafeMaximum(MaxInputHeight)

\* --- C28: the shape of the operation list
\* C28: once the constructor has returned, whatever append() calls followed,
\* the operation list holds add_video at its odd places and transition at its
\* even places, begins and ends with add_video and holds one transition fewer
\* than videos, and execute() finds a video after every transition it reads.
C28_OperationsAlternate ==
    operations # <<>> =>
        /\ \A i \in 1..Len(operations) :
              operations[i].kind = (IF i % 2 = 1 THEN "add_video" ELSE "transition")
        /\ operations[1].kind = "add_video"
        /\ operations[Len(operations)].kind = "add_video"
        /\ Len(TransitionOps) = Len(VideoOps) - 1
        /\ op = "execute" => err # "IndexError"

\* an append() that failed with FileNotFoundError after one that succeeded
C28_Witness ==
    /\ op = "append"
    /\ err = "FileNotFoundError"
    /\ Len(VideoOps) = 2
    /\ Len(TransitionOps) = 1

\* --- C29: offsets and running total of execute()
\* C29: for every sequence the DeferredVideoSequence accepted, every xfade
\* offset execute() computed is greater than or equal to 0 and the running
\* total is strictly positive after each transition.
C29_OffsetsNonNegative ==
    ret.kind = "deferred_execute" =>
        /\ \A k \in 1..Len(ret.offsets) : ret.offsets[k] >= 0
        /\ \A k \in 1..Len(TransitionOps) : RunningOffset(k + 1) > 0
        /\ ret.total_duration > 0

====
